---- MODULE Spec2Model ----
(***************************************************************************)
(* Model of graphql-authz's executeWrapper (packages/core/src/             *)
(* wrap-execute-fn.ts): the pipeline that compiles the rule plan, runs the *)
(* pre-execution rules, calls the underlying engine, runs the              *)
(* post-execution rules against the fetched data and prunes the result.    *)
(*                                                                         *)
(* Values are tagged tuples so that every pair of values is comparable:    *)
(*   <<"null">>              null                                          *)
(*   <<"leaf", s>>           a scalar                                      *)
(*   <<"list", <<v1,..>>>>   a list                                        *)
(*   <<"obj", <<f1,..>>>>    an object, fi = <<fieldName, value>>          *)
(* A selection set is a sequence of fields <<name, subSelection>>.         *)
(***************************************************************************)
EXTENDS Integers, Sequences, FiniteSets, TLC

\* Bound on the size (objects + lists + nulls) of generated result data.
MaxNodes == 7

Null == <<"null">>
Leaf(s) == <<"leaf", s>>
List(s) == <<"list", s>>
Obj(fs) == <<"obj", fs>>

IsNull(v) == v[1] = "null"
IsList(v) == v[1] = "list"
IsObj(v) == v[1] = "obj"

F(name, sub) == <<name, sub>>
Id == F("id", <<>>)

Range(s) == {s[i] : i \in 1..Len(s)}

RECURSIVE Concat(_)
Concat(ss) == IF ss = <<>> THEN <<>> ELSE Head(ss) \o Concat(Tail(ss))

(***************************************************************************)
(* The schema of the list tests.  A field type is the named type and the   *)
(* non-null flags of its wrappers, outermost first: [[[Like!]]]! is        *)
(* Like with <<TRUE, FALSE, FALSE, TRUE>>.                                 *)
(***************************************************************************)
Ty(name, nn) == [name |-> name, nn |-> nn]

rawSchema(P, f) ==
  CASE P = "Query" -> Ty("User", <<FALSE>>)
    [] P = "User" /\ f = "posts" -> Ty("Post", <<FALSE, FALSE>>)
    [] P = "User" /\ f = "comments" -> Ty("Comment", <<FALSE, FALSE>>)
    [] P = "User" /\ f = "likes" -> Ty("Like", <<TRUE, TRUE>>)
    [] P = "User" /\ f = "likesListOfLists" -> Ty("Like", <<TRUE, FALSE, FALSE, TRUE>>)
    [] P = "User" /\ f = "stringsListOfLists" -> Ty("String", <<TRUE, FALSE, FALSE, TRUE>>)
    [] P = "User" /\ f = "email" -> Ty("String", <<FALSE>>)
    [] P = "Post" /\ f = "title" -> Ty("String", <<TRUE>>)
    [] P = "Post" /\ f = "owner" -> Ty("User", <<TRUE>>)
    [] P = "Post" /\ f = "comments" -> Ty("Comment", <<TRUE, TRUE>>)
    [] P = "Comment" /\ f = "text" -> Ty("String", <<TRUE>>)
    [] P = "Comment" /\ f = "owner" -> Ty("User", <<TRUE>>)
    [] P = "Comment" /\ f = "post" -> Ty("Post", <<FALSE>>)
    [] P = "Like" /\ f = "post" -> Ty("Post", <<TRUE>>)
    [] OTHER -> Ty("ID", <<TRUE>>)

\* The queries of the list tests.
userQuery ==
  << F("user", << F("posts", <<Id>>), F("comments", <<Id>>) >>) >>

userWithNullPostsQuery ==
  << F("userWithNullPosts", << F("posts", <<Id>>), F("comments", <<Id>>) >>) >>

userCommentsAndLikesListOfListsQuery ==
  << F("userWithCommentsAndLikesListOfLists",
       << F("likesListOfLists", <<Id>>), F("comments", <<Id>>) >>) >>

userPostsAndLikesListOfListsQuery ==
  << F("userWithPostsAndLikesListOfLists",
       << F("likesListOfLists", <<Id>>), F("posts", <<Id>>) >>) >>

userPostsAndStringsListOfListsQuery ==
  << F("userWithPostsAndStringsListOfLists",
       << F("stringsListOfLists", <<>>), F("posts", <<Id>>) >>) >>

userLikesQuery ==
  << F("userWithLikes",
       << F("likes", << F("post", << F("comments", <<Id>>) >>) >>) >>) >>

Queries ==
  { userQuery, userWithNullPostsQuery, userCommentsAndLikesListOfListsQuery,
    userPostsAndLikesListOfListsQuery, userPostsAndStringsListOfListsQuery,
    userLikesQuery }

(***************************************************************************)
(* The rule registry: for each rule its kind, the verdicts its evaluation  *)
(* can settle with, and the extra selection a post rule needs fetched.     *)
(***************************************************************************)
Rule(kind, verdicts, selectionSet) ==
  [kind |-> kind, verdicts |-> verdicts, selectionSet |-> selectionSet]

rules(name) ==
  CASE name = "FailingPostExecRule" -> Rule("post", {"deny"}, <<>>)
    [] name = "PassingPostExecRule" -> Rule("post", {"pass"}, <<>>)
    [] name = "PassingPostExecRuleWithSelectionSet" ->
         Rule("post", {"pass"}, << Id, F("post", <<Id>>) >>)
    [] name = "PostExecRule" -> Rule("post", {"pass", "deny"}, <<>>)
    [] name = "MalformedSelectionSetRule" -> Rule("post", {"pass"}, << F("", <<>>) >>)
    [] OTHER -> Rule("pre", {"pass", "deny"}, <<>>)

\* The names the registry holds; a binding may name a rule that is not there.
RuleNames ==
  {"FailingPostExecRule", "PassingPostExecRule", "PassingPostExecRuleWithSelectionSet",
   "PostExecRule", "MalformedSelectionSetRule", "PreExecRule", "SecondPreExecRule",
   "SyncPreExecRule"}

\* A rule whose execute is not async: it returns or throws during the call.
IsSync(name) == name = "SyncPreExecRule"

\* The rule bindings a configuration can carry, by name.
AuthSchemas == {"none", "list.test", "selectionSet", "pre", "sync", "misconfigured"}

\* TypeRuleBinding: the rules that apply wherever a value of type T occurs.
TypeRuleBinding(authSchema, T) ==
  CASE authSchema = "list.test" /\ T = "Comment" -> <<"FailingPostExecRule">>
    [] authSchema = "list.test" /\ T = "Like" -> <<"PassingPostExecRule">>
    [] authSchema = "selectionSet" /\ T = "Like" ->
         <<"PassingPostExecRuleWithSelectionSet">>
    [] authSchema = "selectionSet" /\ T = "Comment" -> <<"PostExecRule">>
    [] authSchema = "pre" /\ T = "User" -> <<"PreExecRule">>
    [] authSchema = "pre" /\ T = "Comment" -> <<"FailingPostExecRule">>
    [] authSchema = "sync" /\ T = "User" -> <<"PreExecRule">>
    [] authSchema = "misconfigured" /\ T = "Like" -> <<"UnknownRule">>
    [] authSchema = "misconfigured" /\ T = "Comment" -> <<"MalformedSelectionSetRule">>
    [] OTHER -> <<>>

\* FieldRuleBinding: the rules that apply at field f of type P.
FieldRuleBinding(authSchema, P, f) ==
  CASE authSchema = "pre" /\ P = "Query" -> <<"SecondPreExecRule">>
    [] authSchema = "sync" /\ P = "Query" -> <<"SyncPreExecRule">>
    [] OTHER -> <<>>

(***************************************************************************)
(* compileRules: walk the selection tree; at every field emit an instance  *)
(* for each rule bound to the field, then for each rule bound to the       *)
(* field's return type (unwrapped through lists), carrying the path.       *)
(***************************************************************************)
RECURSIVE compileSelectionSet(_, _, _, _)
compileSelectionSet(authSchema, P, sel, path) ==
  Concat([i \in 1..Len(sel) |->
    LET name == sel[i][1]
        T == rawSchema(P, name).name
        bound == FieldRuleBinding(authSchema, P, name) \o TypeRuleBinding(authSchema, T)
        p == Append(path, name)
    IN  [j \in 1..Len(bound) |-> [rule |-> bound[j], path |-> p]]
          \o compileSelectionSet(authSchema, T, sel[i][2], p)])

compileRules(document, authSchema) ==
  LET all == compileSelectionSet(authSchema, "Query", document, <<>>)
  IN  [preExecutionRules |-> SelectSeq(all, LAMBDA r : rules(r.rule).kind = "pre"),
       postExecutionRules |-> SelectSeq(all, LAMBDA r : rules(r.rule).kind = "post")]

\* compileRules throws on a binding that names a rule the registry lacks.
compileRulesThrows(document, authSchema) ==
  \E r \in Range(compileSelectionSet(authSchema, "Query", document, <<>>)) :
    r.rule \notin RuleNames

(***************************************************************************)
(* addSelectionSetsToDocument: merge every post instance's extra selection *)
(* into the selection set of the field at the instance's path.  A field    *)
(* already selected has the sub-selections merged; a new one is appended.  *)
(***************************************************************************)
HasField(sel, name) == \E i \in 1..Len(sel) : sel[i][1] = name

RECURSIVE mergeSelectionSets(_, _)
mergeSelectionSets(sel, extra) ==
  IF extra = <<>> THEN sel
  ELSE LET e == Head(extra)
           merged ==
             IF HasField(sel, e[1])
             THEN [i \in 1..Len(sel) |->
                     IF sel[i][1] = e[1]
                     THEN F(e[1], mergeSelectionSets(sel[i][2], e[2]))
                     ELSE sel[i]]
             ELSE Append(sel, e)
       IN  mergeSelectionSets(merged, Tail(extra))

RECURSIVE mergeAtPath(_, _, _)
mergeAtPath(sel, path, extra) ==
  IF path = <<>> THEN mergeSelectionSets(sel, extra)
  ELSE [i \in 1..Len(sel) |->
          IF sel[i][1] = Head(path)
          THEN F(sel[i][1], mergeAtPath(sel[i][2], Tail(path), extra))
          ELSE sel[i]]

RECURSIVE addSelectionSets(_, _)
addSelectionSets(sel, instances) ==
  IF instances = <<>> THEN sel
  ELSE addSelectionSets(
         mergeAtPath(sel, Head(instances).path, rules(Head(instances).rule).selectionSet),
         Tail(instances))

addSelectionSetsToDocument(document, compiled) ==
  addSelectionSets(document, compiled.postExecutionRules)

\* addSelectionSetsToDocument throws on a selection set that does not parse.
addSelectionSetsToDocumentThrows(compiled) ==
  \E r \in Range(compiled.postExecutionRules) :
    \E f \in Range(rules(r.rule).selectionSet) : f[1] = ""

(***************************************************************************)
(* cleanupResult: walk the original selection with the data, keep the      *)
(* selected fields in the order of the selection, lists element-wise,      *)
(* null and scalars unchanged.                                             *)
(***************************************************************************)
FieldIndex(fs, name) == CHOOSE i \in 1..Len(fs) : fs[i][1] = name

\* A pruner that peels one level off a list of lists instead of walking it.
RECURSIVE cleanupValue_peels(_, _)
cleanupValue_peels(sel, v) ==
  CASE IsList(v) ->
         IF v[2] # <<>> /\ \A i \in 1..Len(v[2]) : IsList(v[2][i])
         THEN List(Concat([i \in 1..Len(v[2]) |-> v[2][i][2]]))
         ELSE List([i \in 1..Len(v[2]) |-> cleanupValue_peels(sel, v[2][i])])
    [] IsObj(v) ->
         LET kept == SelectSeq(sel, LAMBDA f : HasField(v[2], f[1]))
         IN  Obj([i \in 1..Len(kept) |->
                   <<kept[i][1],
                     cleanupValue_peels(kept[i][2],
                                        v[2][FieldIndex(v[2], kept[i][1])][2])>>])
    [] OTHER -> v

RECURSIVE cleanupValue(_, _)
cleanupValue(sel, v) ==
  CASE IsList(v) -> List([i \in 1..Len(v[2]) |-> cleanupValue(sel, v[2][i])])
    [] IsObj(v) ->
         LET kept == SelectSeq(sel, LAMBDA f : HasField(v[2], f[1]))
         IN  Obj([i \in 1..Len(kept) |->
                   <<kept[i][1],
                     cleanupValue(kept[i][2], v[2][FieldIndex(v[2], kept[i][1])][2])>>])
    [] OTHER -> v

cleanupResult(document, data) == cleanupValue(document, data)

(***************************************************************************)
(* executePostExecRules: resolve every post instance's path against the    *)
(* data; the path fans out over lists at any depth; one evaluation is      *)
(* scheduled per non-null occurrence, none for null or for the elements    *)
(* of an empty or null list.  The result is the list of started            *)
(* evaluations, each with the concrete location it runs against.           *)
(***************************************************************************)
RECURSIVE occurrences(_, _, _)
occurrences(v, path, at) ==
  CASE IsNull(v) -> <<>>
    [] IsList(v) ->
         Concat([i \in 1..Len(v[2]) |->
                   occurrences(v[2][i], path, Append(at, <<"index", i>>))])
    [] path = <<>> -> <<at>>
    [] path # <<>> /\ IsObj(v) /\ HasField(v[2], Head(path)) ->
         occurrences(v[2][FieldIndex(v[2], Head(path))][2], Tail(path),
                     Append(at, <<"field", Head(path)>>))
    [] OTHER -> <<>>

executePostExecRules(data, compiled) ==
  Concat([k \in 1..Len(compiled.postExecutionRules) |->
    LET inst == compiled.postExecutionRules[k]
        occ == occurrences(data, inst.path, <<>>)
    IN  [j \in 1..Len(occ) |->
           [rule |-> inst.rule, path |-> inst.path, at |-> occ[j]]]])

(***************************************************************************)
(* The underlying engine.  For a document it returns data of the shape the *)
(* document selects, honouring the schema's non-null markers.  Results are *)
(* the mocks of the list tests and every data tree whose objects, lists    *)
(* and nulls number at most MaxNodes.                                      *)
(***************************************************************************)
IsLeafType(T) == T \in {"ID", "String"}

RECURSIVE GenValue(_, _, _, _)
RECURSIVE GenElements(_, _, _, _)
RECURSIVE GenFields(_, _, _, _)

\* The values of type T under wrappers nn that have exactly n nodes.
GenValue(T, nn, sel, n) ==
  (IF ~Head(nn) /\ n = 1 THEN {Null} ELSE {})
  \cup
  (CASE Len(nn) > 1 ->
          IF n >= 1 THEN {List(s) : s \in GenElements(T, Tail(nn), sel, n - 1)} ELSE {}
     [] Len(nn) = 1 /\ IsLeafType(T) -> IF n = 0 THEN {Leaf("v")} ELSE {}
     [] OTHER ->
          IF n >= 1 THEN {Obj(fs) : fs \in GenFields(T, sel, 1, n - 1)} ELSE {})

\* The element sequences that have exactly n nodes; a scalar element counts one.
GenElements(T, nn, sel, n) ==
  IF n = 0 THEN {<<>>}
  ELSE UNION {
         {<<v>> \o rest :
            v \in (IF Len(nn) = 1 /\ IsLeafType(T) /\ k = 1
                   THEN {Leaf("v")} \cup GenValue(T, nn, sel, 1)
                   ELSE GenValue(T, nn, sel, k)),
            rest \in GenElements(T, nn, sel, n - k)} : k \in 1..n }

\* The values of the fields i.. of selection sel on type P, n nodes in all.
GenFields(P, sel, i, n) ==
  IF i > Len(sel) THEN (IF n = 0 THEN {<<>>} ELSE {})
  ELSE LET ty == rawSchema(P, sel[i][1])
       IN  UNION {
             {<< <<sel[i][1], v>> >> \o rest :
                v \in GenValue(ty.name, ty.nn, sel[i][2], k),
                rest \in GenFields(P, sel, i + 1, n - k)} : k \in 0..n }

GenData(document) ==
  UNION { {Obj(fs) : fs \in GenFields("Query", document, 1, n)} : n \in 0..MaxNodes }

\* The mocks of the list tests, by root field.
IdObj(s) == Obj(<< <<"id", Leaf(s)>> >>)

mocks(root) ==
  CASE root = "user" ->
         Obj(<< <<"posts", List(<<>>)>>,
                <<"comments", List(<<IdObj("comment_id")>>)>> >>)
    [] root = "userWithNullPosts" ->
         Obj(<< <<"posts", Null>>,
                <<"comments", List(<<IdObj("comment_id")>>)>> >>)
    [] root = "userWithLikes" -> Obj(<< <<"likes", List(<<>>)>> >>)
    [] root = "userWithCommentsAndLikesListOfLists" ->
         Obj(<< <<"likesListOfLists",
                  List(<< List(<< List(<<IdObj("like_id01"), IdObj("like_id02")>>) >>),
                          List(<< List(<<IdObj("like_id03"), IdObj("like_id04")>>) >>) >>)>>,
                <<"comments", List(<<IdObj("comment_id")>>)>> >>)
    [] root = "userWithPostsAndLikesListOfLists" ->
         Obj(<< <<"likesListOfLists",
                  List(<< List(<< List(<<IdObj("like_id01"), IdObj("like_id02")>>),
                                  List(<<IdObj("like_id03"), IdObj("like_id04")>>) >>) >>)>>,
                <<"posts", List(<<IdObj("post_id")>>)>> >>)
    [] root = "userWithPostsAndStringsListOfLists" ->
         Obj(<< <<"stringsListOfLists",
                  List(<< List(<< List(<<Leaf("test01"), Leaf("test02")>>),
                                  List(<<Leaf("test03"), Leaf("test04")>>) >>),
                          List(<< List(<<Leaf("test05")>>) >>) >>)>>,
                <<"posts", List(<<IdObj("post_id")>>)>> >>)
    [] OTHER -> Null

\* What the mocked server resolves for a document of the tests.
mockData(document) == Obj(<< <<document[1][1], mocks(document[1][1])>> >>)

\* The engine's result: data (null when the operation failed) and its errors.
NoData == <<"none">>
NoResult == [data |-> NoData, errors |-> <<>>]

RECURSIVE HasNull(_)
HasNull(v) ==
  CASE IsNull(v) -> TRUE
    [] IsList(v) -> \E i \in 1..Len(v[2]) : HasNull(v[2][i])
    [] IsObj(v) -> \E i \in 1..Len(v[2]) : HasNull(v[2][i][2])
    [] OTHER -> FALSE

\* A field that failed is null in the data and reported in errors; data is
\* null when the operation failed as a whole.
EngineResults(original, document) ==
  LET datas == GenData(document)
                 \cup (IF document = original THEN {mockData(original)} ELSE {})
  IN  {[data |-> d, errors |-> <<>>] : d \in datas}
        \cup {[data |-> d, errors |-> <<"engine error">>] :
                d \in {x \in datas : HasNull(x)} \cup {Null}}

(***************************************************************************)
(* executeWrapper, one execution.                                          *)
(***************************************************************************)
VARIABLES
  args,              \* the caller's ExecutionArgs
  processError,      \* the configured error policy: "throws" or "returns"
  authSchema,        \* the configured rule bindings
  pc,                \* where executeWrapper is suspended
  filteredDocument,  \* the caller's document
  compiledRules,     \* the compiled rule plan
  fullDocument,      \* the augmented document
  preExecution,      \* the promise of each pre rule's execute
  preAll,            \* Promise.all over preExecution
  executeFnCalls,    \* the arguments of every call of executeFn
  executionResult,   \* what executeFn resolved with
  executionPromises, \* the promises executePostExecRules returned
  postAll,           \* Promise.all over executionPromises
  cleanResult,       \* what cleanupResult returned
  cleanupCalls,      \* how many times cleanupResult ran
  processErrorCalls, \* the errors handed to processError
  settled,           \* the promise executeWrapper returned
  returned,          \* the value it resolved with
  thrown             \* the error it rejected with

vars ==
  << args, processError, authSchema, pc, filteredDocument, compiledRules,
     fullDocument, preExecution, preAll, executeFnCalls, executionResult,
     executionPromises, postAll, cleanResult, cleanupCalls, processErrorCalls,
     settled, returned, thrown >>

NoError == <<"none">>
\* An error that does not tell which instance failed.
RuleError_anonymous(phase, i) == <<"rule", phase, 0>>

\* The error a denying rule instance rejects with (instance i of the phase).
RuleError(phase, i) == <<"rule", phase, i>>
ProcessErrorThrew(e) == <<"processError", e>>
GenericError == <<"Something went wrong. processError function must throw an error">>

Pending == [state |-> "pending", reason |-> 0]

\* Promise.allSettled in place of Promise.all: fulfils once all have settled.
PromiseAll_allSettled(all, states, i, verdict) ==
  IF all.state # "pending" THEN all
  ELSE IF \A j \in 1..Len(states) : j # i => states[j] # "pending"
       THEN [state |-> "fulfilled", reason |-> 0]
       ELSE all

\* Promise.race in place of Promise.all: settles as the first member does.
PromiseAll_race(all, states, i, verdict) ==
  IF all.state # "pending" THEN all
  ELSE IF verdict = "deny" THEN [state |-> "rejected", reason |-> i]
  ELSE [state |-> "fulfilled", reason |-> 0]

\* A combined promise that never settles, whatever its members do.
PromiseAll_neverSettles(all, states, i, verdict) == all

\* Promise.all: rejects with the first rejection, fulfils once all fulfilled.
PromiseAll(all, states, i, verdict) ==
  IF all.state # "pending" THEN all
  ELSE IF verdict = "deny" THEN [state |-> "rejected", reason |-> i]
  ELSE IF \A j \in 1..Len(states) : j # i => states[j] = "fulfilled"
       THEN [state |-> "fulfilled", reason |-> 0]
       ELSE all

\* Promise.any in place of Promise.all: an empty list rejects.
PromiseAllOf_any(n) ==
  IF n = 0 THEN [state |-> "rejected", reason |-> 0] ELSE Pending

\* Promise.all over n promises, before any of them settles.
PromiseAllOf(n) ==
  IF n = 0 THEN [state |-> "fulfilled", reason |-> 0] ELSE Pending

Settle(verdict) == IF verdict = "pass" THEN "fulfilled" ELSE "rejected"

Init ==
  /\ args \in {[document |-> q, schema |-> "rawSchema", contextValue |-> "context",
                  variableValues |-> <<>>, operationName |-> q[1][1]] : q \in Queries}
  /\ processError \in {"throws", "returns"}
  /\ authSchema \in AuthSchemas
  /\ pc = "start"
  /\ filteredDocument = <<>>
  /\ compiledRules = [preExecutionRules |-> <<>>, postExecutionRules |-> <<>>]
  /\ fullDocument = <<>>
  /\ preExecution = <<>>
  /\ preAll = Pending
  /\ executeFnCalls = <<>>
  /\ executionResult = NoResult
  /\ executionPromises = <<>>
  /\ postAll = Pending
  /\ cleanResult = NoData
  /\ cleanupCalls = 0
  /\ processErrorCalls = <<>>
  /\ settled = "pending"
  /\ returned = NoResult
  /\ thrown = NoError

ConfigurationThrows ==
  \/ compileRulesThrows(args.document, authSchema)
  \/ addSelectionSetsToDocumentThrows(compileRules(args.document, authSchema))

CompileError == <<"compileRules">>
AugmentError == <<"addSelectionSetsToDocument">>
EngineError == <<"engine">>

\* compileRules and addSelectionSetsToDocument called inside the try block:
\* their error is handed to processError.
ConfigurationError_insideTry ==
  /\ pc = "start"
  /\ ConfigurationThrows
  /\ filteredDocument' = args.document
  /\ processErrorCalls' = Append(processErrorCalls, CompileError)
  /\ thrown' = IF processError = "throws" THEN ProcessErrorThrew(CompileError)
               ELSE GenericError
  /\ settled' = "rejected"
  /\ pc' = "done"
  /\ UNCHANGED << args, processError, authSchema, compiledRules, fullDocument,
                  preExecution, preAll, executeFnCalls, executionResult,
                  executionPromises, postAll, cleanResult, cleanupCalls, returned >>

\* Lines 22-42, compileRules or addSelectionSetsToDocument throws: outside any
\* try, the error rejects the promise of the async function.
ConfigurationError ==
  /\ pc = "start"
  /\ ConfigurationThrows
  /\ filteredDocument' = args.document
  /\ IF compileRulesThrows(args.document, authSchema)
     THEN /\ thrown' = CompileError
          /\ UNCHANGED compiledRules
     ELSE /\ thrown' = AugmentError
          /\ compiledRules' = compileRules(args.document, authSchema)
  /\ settled' = "rejected"
  /\ pc' = "done"
  /\ UNCHANGED << args, processError, authSchema, fullDocument, preExecution, preAll,
                  executeFnCalls, executionResult, executionPromises, postAll,
                  cleanResult, cleanupCalls, processErrorCalls, returned >>

\* The promise of a started pre rule: a rule that is not async has returned.
Started(rule) == IF IsSync(rule) THEN "fulfilled" ELSE "pending"

\* Lines 22-49: compile, augment, start every pre rule, await Promise.all.
StartPreExecutionRules ==
  /\ pc = "start"
  /\ ~ConfigurationThrows
  /\ LET compiled == compileRules(args.document, authSchema)
         pre == compiled.preExecutionRules
     IN  /\ filteredDocument' = args.document
         /\ compiledRules' = compiled
         /\ fullDocument' = addSelectionSetsToDocument(args.document, compiled)
         /\ preExecution' = [i \in 1..Len(pre) |-> Started(pre[i].rule)]
         /\ preAll' = PromiseAllOf(Cardinality({i \in 1..Len(pre) : ~IsSync(pre[i].rule)}))
  /\ pc' = "awaitPre"
  /\ UNCHANGED << args, processError, authSchema, executeFnCalls, executionResult,
                  executionPromises, postAll, cleanResult, cleanupCalls,
                  processErrorCalls, settled, returned, thrown >>

\* A pre rule's execute settles.
SettlePreExecutionRule ==
  \E i \in 1..Len(preExecution) :
    \E verdict \in rules(compiledRules.preExecutionRules[i].rule).verdicts :
      /\ preExecution[i] = "pending"
      /\ preExecution' = [preExecution EXCEPT ![i] = Settle(verdict)]
      /\ preAll' = PromiseAll(preAll, preExecution, i, verdict)
      /\ UNCHANGED << args, processError, authSchema, pc, filteredDocument,
                      compiledRules, fullDocument, executeFnCalls, executionResult,
                      executionPromises, postAll, cleanResult, cleanupCalls,
                      processErrorCalls, settled, returned, thrown >>

\* The engine called with the caller's arguments, document included.
CallExecuteFn_originalDocument ==
  /\ executeFnCalls' = Append(executeFnCalls, args)
  /\ pc' = "awaitExecuteFn"
  /\ UNCHANGED << settled, returned, thrown >>

\* Lines 54-57: executeFn({...args, document: fullDocument}).
CallExecuteFn ==
  /\ executeFnCalls' = Append(executeFnCalls, [args EXCEPT !.document = fullDocument])
  /\ pc' = "awaitExecuteFn"
  /\ UNCHANGED << settled, returned, thrown >>

\* Lines 22-57, a pre rule's execute throws during the map: the rules after
\* it are not started, no Promise.all is created, the catch block runs
\* processError at once and, when it returns, executeFn is called.
PreExecutionRuleThrows ==
  /\ pc = "start"
  /\ ~ConfigurationThrows
  /\ LET compiled == compileRules(args.document, authSchema)
         pre == compiled.preExecutionRules
     IN  \E k \in 1..Len(pre) :
           /\ IsSync(pre[k].rule)
           /\ "deny" \in rules(pre[k].rule).verdicts
           /\ filteredDocument' = args.document
           /\ compiledRules' = compiled
           /\ fullDocument' = addSelectionSetsToDocument(args.document, compiled)
           /\ preExecution' = [i \in 1..Len(pre) |->
                                 IF i < k THEN Started(pre[i].rule)
                                 ELSE IF i = k THEN "rejected" ELSE "unstarted"]
           /\ preAll' = [state |-> "none", reason |-> 0]
           /\ processErrorCalls' = Append(processErrorCalls, RuleError("pre", k))
           /\ IF processError = "throws"
              THEN /\ settled' = "rejected"
                   /\ thrown' = ProcessErrorThrew(RuleError("pre", k))
                   /\ pc' = "done"
                   /\ UNCHANGED << executeFnCalls, returned >>
              ELSE /\ executeFnCalls' =
                        Append(executeFnCalls,
                               [args EXCEPT !.document =
                                  addSelectionSetsToDocument(args.document, compiled)])
                   /\ pc' = "awaitExecuteFn"
                   /\ UNCHANGED << settled, returned, thrown >>
  /\ UNCHANGED << args, processError, authSchema, executionResult,
                  executionPromises, postAll, cleanResult, cleanupCalls >>

\* Lines 50-57, Promise.all rejected: processError(error); when it returns,
\* control leaves the catch block and reaches the call of executeFn.
PreExecutionRulesFailed ==
  /\ pc = "awaitPre"
  /\ preAll.state = "rejected"
  /\ processErrorCalls' = Append(processErrorCalls, RuleError("pre", preAll.reason))
  /\ IF processError = "throws"
     THEN /\ settled' = "rejected"
          /\ thrown' = ProcessErrorThrew(RuleError("pre", preAll.reason))
          /\ pc' = "done"
          /\ UNCHANGED << executeFnCalls, returned >>
     ELSE CallExecuteFn
  /\ UNCHANGED << args, processError, authSchema, filteredDocument, compiledRules,
                  fullDocument, preExecution, preAll, executionResult,
                  executionPromises, postAll, cleanResult, cleanupCalls >>

\* Lines 45-57, Promise.all fulfilled.
PreExecutionRulesPassed ==
  /\ pc = "awaitPre"
  /\ preAll.state = "fulfilled"
  /\ CallExecuteFn
  /\ UNCHANGED << args, processError, authSchema, filteredDocument, compiledRules,
                  fullDocument, preExecution, preAll, executionResult,
                  executionPromises, postAll, cleanResult, cleanupCalls,
                  processErrorCalls >>

\* A guard that also skips the post phase when the engine reported errors.
EntersPostExecution_noErrors(result) == ~IsNull(result.data) /\ result.errors = <<>>

\* No guard: the post phase is entered whatever the engine returned.
EntersPostExecution_always(result) == TRUE

\* Line 60: if (executionResult.data).
EntersPostExecution(result) == ~IsNull(result.data)

\* A result rebuilt from the pruned data alone, the other members dropped.
ResultWithCleanData_dataOnly(result, clean) == [data |-> clean, errors |-> <<>>]

\* A result that carries the engine's data instead of the pruned data.
ResultWithCleanData_raw(result, clean) == result

\* A result that takes the errors of the engine for authorization failures
\* and leaves them out.
ResultWithCleanData_errorsStripped(result, clean) ==
  [result EXCEPT !.data = clean, !.errors = <<>>]

\* Lines 82-85: { ...executionResult, data: cleanResult }.
ResultWithCleanData(result, clean) == [result EXCEPT !.data = clean]

\* Lines 54-87, executeFn resolved: with data, start the post rules, prune
\* the data and await Promise.all; without data, return the engine's result.
ExecuteFnResolved ==
  /\ pc = "awaitExecuteFn"
  /\ \E result \in EngineResults(filteredDocument, fullDocument) :
       /\ executionResult' = result
       /\ IF EntersPostExecution(result)
          THEN LET promises == executePostExecRules(result.data, compiledRules)
               IN  /\ executionPromises' =
                        [i \in 1..Len(promises) |->
                           [rule |-> promises[i].rule, path |-> promises[i].path,
                            at |-> promises[i].at, state |-> "pending"]]
                   /\ postAll' = PromiseAllOf(Len(promises))
                   /\ cleanResult' = cleanupResult(filteredDocument, result.data)
                   /\ cleanupCalls' = cleanupCalls + 1
                   /\ pc' = "awaitPost"
                   /\ UNCHANGED << settled, returned >>
          ELSE /\ settled' = "resolved"
               /\ returned' = result
               /\ pc' = "done"
               /\ UNCHANGED << executionPromises, postAll, cleanResult, cleanupCalls >>
  /\ UNCHANGED << args, processError, authSchema, filteredDocument, compiledRules,
                  fullDocument, preExecution, preAll, executeFnCalls,
                  processErrorCalls, thrown >>

\* executeFn awaited inside the try block: its error is handed to processError.
ExecuteFnRejected_insideTry ==
  /\ pc = "awaitExecuteFn"
  /\ processErrorCalls' = Append(processErrorCalls, EngineError)
  /\ settled' = "rejected"
  /\ thrown' = IF processError = "throws" THEN ProcessErrorThrew(EngineError)
               ELSE GenericError
  /\ pc' = "done"
  /\ UNCHANGED << args, processError, authSchema, filteredDocument, compiledRules,
                  fullDocument, preExecution, preAll, executeFnCalls, executionResult,
                  executionPromises, postAll, cleanResult, cleanupCalls, returned >>

\* Line 54, executeFn rejected: outside any try, the error propagates.
ExecuteFnRejected ==
  /\ pc = "awaitExecuteFn"
  /\ settled' = "rejected"
  /\ thrown' = EngineError
  /\ pc' = "done"
  /\ UNCHANGED << args, processError, authSchema, filteredDocument, compiledRules,
                  fullDocument, preExecution, preAll, executeFnCalls, executionResult,
                  executionPromises, postAll, cleanResult, cleanupCalls,
                  processErrorCalls, returned >>

\* A post rule's evaluation settles.
SettlePostExecutionRule ==
  \E i \in 1..Len(executionPromises) :
    \E verdict \in rules(executionPromises[i].rule).verdicts :
      /\ executionPromises[i].state = "pending"
      /\ executionPromises' = [executionPromises EXCEPT ![i].state = Settle(verdict)]
      /\ postAll' = PromiseAll(postAll,
                               [j \in 1..Len(executionPromises) |-> executionPromises[j].state],
                               i, verdict)
      /\ UNCHANGED << args, processError, authSchema, pc, filteredDocument,
                      compiledRules, fullDocument, preExecution, preAll,
                      executeFnCalls, executionResult, cleanResult, cleanupCalls,
                      processErrorCalls, settled, returned, thrown >>

\* Lines 81-85, Promise.all fulfilled: return the result with the pruned data.
PostExecutionRulesPassed ==
  /\ pc = "awaitPost"
  /\ postAll.state = "fulfilled"
  /\ settled' = "resolved"
  /\ returned' = ResultWithCleanData(executionResult, cleanResult)
  /\ pc' = "done"
  /\ UNCHANGED << args, processError, authSchema, filteredDocument, compiledRules,
                  fullDocument, preExecution, preAll, executeFnCalls, executionResult,
                  executionPromises, postAll, cleanResult, cleanupCalls,
                  processErrorCalls, thrown >>

\* Lines 88-94, Promise.all rejected: processError(error), then the final throw.
PostExecutionRulesFailed ==
  /\ pc = "awaitPost"
  /\ postAll.state = "rejected"
  /\ processErrorCalls' = Append(processErrorCalls, RuleError("post", postAll.reason))
  /\ settled' = "rejected"
  /\ thrown' = IF processError = "throws"
               THEN ProcessErrorThrew(RuleError("post", postAll.reason))
               ELSE GenericError
  /\ pc' = "done"
  /\ UNCHANGED << args, processError, authSchema, filteredDocument, compiledRules,
                  fullDocument, preExecution, preAll, executeFnCalls, executionResult,
                  executionPromises, postAll, cleanResult, cleanupCalls, returned >>

Next ==
  \/ ConfigurationError
  \/ StartPreExecutionRules
  \/ PreExecutionRuleThrows
  \/ SettlePreExecutionRule
  \/ PreExecutionRulesFailed
  \/ PreExecutionRulesPassed
  \/ ExecuteFnResolved
  \/ ExecuteFnRejected
  \/ SettlePostExecutionRule
  \/ PostExecutionRulesPassed
  \/ PostExecutionRulesFailed

Spec == Init /\ [][Next]_vars

\* Every rule evaluation and the engine call eventually settle, and the event
\* loop runs every continuation that is ready. The call of an async function
\* runs at once up to its first await or throw, which is the step that leaves
\* "start" (one of ConfigurationError, StartPreExecutionRules and
\* PreExecutionRuleThrows is possible in every such state). While the engine
\* call is pending, ExecuteFnRejected stays possible until the call settles
\* one way or the other, so weak fairness of it states that the call settles.
FairSpec ==
  /\ Spec
  /\ <>(pc # "start")
  /\ WF_vars(SettlePreExecutionRule)
  /\ WF_vars(PreExecutionRulesFailed)
  /\ WF_vars(PreExecutionRulesPassed)
  /\ WF_vars(ExecuteFnRejected)
  /\ WF_vars(SettlePostExecutionRule)
  /\ WF_vars(PostExecutionRulesPassed)
  /\ WF_vars(PostExecutionRulesFailed)

(***************************************************************************)
(* Properties.                                                             *)
(***************************************************************************)
SomePreRejected == \E i \in 1..Len(preExecution) : preExecution[i] = "rejected"
SomePostRejected ==
  \E i \in 1..Len(executionPromises) : executionPromises[i].state = "rejected"
SomePostFulfilled ==
  \E i \in 1..Len(executionPromises) : executionPromises[i].state = "fulfilled"
SomePending ==
  \/ \E i \in 1..Len(preExecution) : preExecution[i] = "pending"
  \/ \E i \in 1..Len(executionPromises) : executionPromises[i].state = "pending"

\* C1: once a pre-execution rule instance has denied or raised, executeFn is
\* never invoked, whether processError throws or returns.
C1_EngineNeverInvokedAfterPreDenial ==
  SomePreRejected => executeFnCalls = <<>>

\* C2: once a post-execution rule evaluation has denied or raised,
\* executeWrapper never resolves and returns no data, and when it settles it
\* rejects, whatever the other evaluations did and whatever processError does.
C2_PostDenialNeverReturnsData ==
  SomePostRejected =>
    /\ settled # "resolved"
    /\ returned = NoResult
    /\ pc = "done" => settled = "rejected"

\* C2 witness: a post evaluation denied while another passed, and the call
\* rejected although processError returned.
C2_Witness ==
  /\ SomePostRejected
  /\ SomePostFulfilled
  /\ processError = "returns"
  /\ pc = "done"
  /\ settled = "rejected"

\* C3: in either phase, once processError was invoked and returned without
\* throwing, executeWrapper has rejected with the generic misconfiguration
\* error and does no further pipeline work.
C3_ProcessErrorReturnedRejectsGeneric ==
  (processError = "returns" /\ processErrorCalls # <<>>) =>
    /\ pc = "done"
    /\ settled = "rejected"
    /\ thrown = GenericError

\* C4: processError is invoked, and executeWrapper settles, only when every
\* rule evaluation started has settled: no evaluation is still in flight.
C4_NoEvaluationInFlightAtFailure ==
  (processErrorCalls # <<>> \/ settled # "pending") => ~SomePending

\* C5: executeFn is invoked only after every pre instance settled with a
\* pass, and post evaluations are started only after executeFn returned.
C5_PhasesInOrder ==
  /\ executeFnCalls # <<>> =>
       \A i \in 1..Len(preExecution) : preExecution[i] = "fulfilled"
  /\ executionPromises # <<>> => executionResult # NoResult

\* The schema's object types.
Types == {"User", "Post", "Comment", "Like"}

\* The type of the field a selection path ends at.
RECURSIVE typeAt(_, _)
typeAt(P, path) ==
  IF path = <<>> THEN P ELSE typeAt(rawSchema(P, Head(path)).name, Tail(path))

RECURSIVE Sum(_)
Sum(ns) == IF ns = <<>> THEN 0 ELSE Head(ns) + Sum(Tail(ns))

\* The number of non-null values of type T in value v of type ty that the
\* selection sel reaches, counted by walking the data, not the rule plan.
RECURSIVE concreteOccurrences(_, _, _, _)
concreteOccurrences(T, ty, sel, v) ==
  CASE IsNull(v) -> 0
    [] IsList(v) ->
         Sum([i \in 1..Len(v[2]) |-> concreteOccurrences(T, ty, sel, v[2][i])])
    [] IsObj(v) ->
         (IF ty = T THEN 1 ELSE 0)
         + Sum([i \in 1..Len(sel) |->
                  IF HasField(v[2], sel[i][1])
                  THEN concreteOccurrences(T, rawSchema(ty, sel[i][1]).name, sel[i][2],
                                           v[2][FieldIndex(v[2], sel[i][1])][2])
                  ELSE 0])
    [] OTHER -> IF ty = T THEN 1 ELSE 0

\* The value at a concrete location of the data.
RECURSIVE valueAt(_, _)
valueAt(v, at) ==
  IF at = <<>> THEN v
  ELSE IF Head(at)[1] = "index" THEN valueAt(v[2][Head(at)[2]], Tail(at))
  ELSE valueAt(v[2][FieldIndex(v[2], Head(at)[2])][2], Tail(at))

PostEntered == executionResult # NoResult /\ ~IsNull(executionResult.data)

EvaluationsOf(r, T) ==
  {i \in 1..Len(executionPromises) :
     executionPromises[i].rule = r /\ typeAt("Query", executionPromises[i].path) = T}

\* C6: once the post phase is entered, every post rule bound to a type T has
\* been started exactly once per non-null occurrence of T that the query's
\* selection reaches in the data, lists of any depth included, each at its own
\* location holding a non-null value; null values and the elements of empty
\* or null lists get none.
C6_OncePerConcreteOccurrence ==
  PostEntered =>
    \A T \in Types :
      \A r \in {x \in Range(TypeRuleBinding(authSchema, T)) : rules(x).kind = "post"} :
        /\ Cardinality(EvaluationsOf(r, T))
             = concreteOccurrences(T, "Query", filteredDocument, executionResult.data)
        /\ \A i, j \in EvaluationsOf(r, T) :
             i # j => executionPromises[i].at # executionPromises[j].at
        /\ \A i \in EvaluationsOf(r, T) :
             ~IsNull(valueAt(executionResult.data, executionPromises[i].at))

\* C6 witness: the [[[Like]]] of the tests holding 4 objects, 4 evaluations.
C6_Witness ==
  /\ args.document = userPostsAndLikesListOfListsQuery
  /\ authSchema = "list.test"
  /\ executionResult.data = mockData(args.document)
  /\ Cardinality(EvaluationsOf("PassingPostExecRule", "Like")) = 4

\* The data conforms to a selection: every object has exactly the selected
\* fields, in the order of the selection.
RECURSIVE Conforms(_, _)
Conforms(sel, v) ==
  CASE IsNull(v) -> TRUE
    [] IsList(v) -> \A i \in 1..Len(v[2]) : Conforms(sel, v[2][i])
    [] IsObj(v) ->
         /\ Len(v[2]) = Len(sel)
         /\ \A i \in 1..Len(sel) :
              v[2][i][1] = sel[i][1] /\ Conforms(sel[i][2], v[2][i][2])
    [] OTHER -> sel = <<>>

\* Value a is value b with fields left out: same nulls, same list lengths,
\* same scalars.
RECURSIVE SubData(_, _)
SubData(a, b) ==
  CASE IsNull(a) -> IsNull(b)
    [] IsList(a) ->
         /\ IsList(b)
         /\ Len(a[2]) = Len(b[2])
         /\ \A i \in 1..Len(a[2]) : SubData(a[2][i], b[2][i])
    [] IsObj(a) ->
         /\ IsObj(b)
         /\ \A i \in 1..Len(a[2]) :
              /\ HasField(b[2], a[2][i][1])
              /\ SubData(a[2][i][2], b[2][FieldIndex(b[2], a[2][i][1])][2])
    [] OTHER -> a = b

AlwaysDenies(r) == rules(r).verdicts = {"deny"}

\* Every post instance is bound to an always-denying rule whose type has no
\* concrete occurrence in the data, or to a rule that always passes.
ZeroOccurrences ==
  /\ PostEntered
  /\ \E k \in 1..Len(compiledRules.postExecutionRules) :
       AlwaysDenies(compiledRules.postExecutionRules[k].rule)
  /\ \A k \in 1..Len(compiledRules.postExecutionRules) :
       LET inst == compiledRules.postExecutionRules[k]
       IN  IF AlwaysDenies(inst.rule)
           THEN concreteOccurrences(typeAt("Query", inst.path), "Query",
                                    filteredDocument, executionResult.data) = 0
           ELSE rules(inst.rule).verdicts = {"pass"}

\* C7: when the type bound to an always-denying post rule has no concrete
\* occurrence in the response, the denying rule is evaluated zero times, the
\* operation does not fail, and the data it resolves with has the selected
\* fields with the engine's empty lists and nulls in place.
C7_ZeroOccurrencesSucceed ==
  ZeroOccurrences =>
    /\ \A i \in 1..Len(executionPromises) : ~AlwaysDenies(executionPromises[i].rule)
    /\ settled # "rejected"
    /\ pc = "done" =>
         /\ settled = "resolved"
         /\ Conforms(filteredDocument, returned.data)
         /\ SubData(returned.data, executionResult.data)

\* C7 witness: the empty likes list of the tests, resolved unchanged.
C7_Witness ==
  /\ args.document = userLikesQuery
  /\ authSchema = "list.test"
  /\ ZeroOccurrences
  /\ settled = "resolved"
  /\ returned.data = mockData(args.document)

NoInstances ==
  /\ pc # "start"
  /\ thrown # CompileError
  /\ compiledRules.preExecutionRules = <<>>
  /\ compiledRules.postExecutionRules = <<>>

\* C8: when the compiled plan holds no pre and no post instance, processError
\* is never invoked and the result executeWrapper resolves with equals the
\* engine's result, data and errors.
C8_NoInstancesNoOp ==
  NoInstances =>
    /\ processErrorCalls = <<>>
    /\ settled = "resolved" => returned = executionResult
    /\ (pc = "done" /\ executionResult # NoResult) => settled = "resolved"

\* C8 witness: the list of lists of strings of the tests, returned as is.
C8_Witness ==
  /\ args.document = userPostsAndStringsListOfListsQuery
  /\ authSchema = "list.test"
  /\ NoInstances
  /\ settled = "resolved"
  /\ returned.data = mockData(args.document)

\* C9: the data executeWrapper resolves with has exactly the fields of the
\* original query, in its order, none of the injected ones, and the nesting,
\* list lengths, nulls and scalars of the engine's data.
C9_NoInjectedFieldReturned ==
  settled = "resolved" =>
    /\ Conforms(filteredDocument, returned.data)
    /\ SubData(returned.data, executionResult.data)

\* C9 witness: a resolved call whose engine data held injected fields inside
\* a list.
C9_Witness ==
  /\ settled = "resolved"
  /\ fullDocument # filteredDocument
  /\ returned.data # executionResult.data
  /\ SomePostFulfilled

\* C10: pruning an already-pruned result changes nothing.
C10_PruningIdempotent ==
  cleanResult # NoData => cleanupResult(filteredDocument, cleanResult) = cleanResult

\* C10 witness: a pruned result that differs from the engine's data and holds
\* a list of lists.
C10_Witness ==
  /\ cleanResult # NoData
  /\ cleanResult # executionResult.data
  /\ args.document = userPostsAndLikesListOfListsQuery
  /\ \E i \in 1..Len(executionPromises) : Len(executionPromises[i].at) >= 5

\* C11: when the engine returned data and executeWrapper resolves, the result
\* has the members of the engine's result, the errors unchanged, and only
\* data replaced by the pruned data.
C11_OtherMembersUnchanged ==
  (settled = "resolved" /\ PostEntered) =>
    /\ DOMAIN returned = DOMAIN executionResult
    /\ returned.errors = executionResult.errors
    /\ returned.data = cleanResult
    /\ cleanResult = cleanupResult(filteredDocument, executionResult.data)

\* C11 witness: a resolved call whose engine result carried errors beside
\* data that the pruner changed.
C11_Witness ==
  /\ settled = "resolved"
  /\ PostEntered
  /\ executionResult.errors # <<>>
  /\ returned.data # executionResult.data
  /\ SomePostFulfilled

HasPostError ==
  \E k \in 1..Len(processErrorCalls) : processErrorCalls[k][2] = "post"

\* C12: when the engine's result has null data, no post rule is evaluated,
\* the pruner is not run, processError is not invoked for the post phase and
\* executeWrapper resolves with the engine's result unchanged.
C12_NullDataSkipsPostPhase ==
  (executionResult # NoResult /\ IsNull(executionResult.data)) =>
    /\ executionPromises = <<>>
    /\ cleanupCalls = 0
    /\ cleanResult = NoData
    /\ ~HasPostError
    /\ settled = "resolved"
    /\ returned = executionResult

\* C12 witness: the engine returned null data with errors for a query whose
\* plan holds post instances, and the call resolved.
C12_Witness ==
  /\ executionResult # NoResult
  /\ IsNull(executionResult.data)
  /\ executionResult.errors # <<>>
  /\ compiledRules.postExecutionRules # <<>>
  /\ settled = "resolved"

AllPostFulfilled ==
  \A i \in 1..Len(executionPromises) : executionPromises[i].state = "fulfilled"

\* C13 as stated: the pruner has run only when every post-execution rule
\* evaluation has settled with a pass.
C13_PrunerRunsOnlyAfterAllPassed ==
  cleanupCalls > 0 => AllPostFulfilled

\* C13 as amended: the pruner runs once as soon as the engine returned data,
\* before the post evaluations settle and also when one of them denies; its
\* result is returned only after every post evaluation has settled with a
\* pass, and is never returned when a post rule denies.
C13_PrunedDataReturnedOnlyAfterAllPassed ==
  /\ cleanupCalls = IF PostEntered THEN 1 ELSE 0
  /\ PostEntered => cleanResult = cleanupResult(filteredDocument, executionResult.data)
  /\ (settled = "resolved" /\ PostEntered) =>
       AllPostFulfilled /\ returned.data = cleanResult
  /\ SomePostRejected => returned = NoResult

\* C13 witness: a post rule denied, the pruner had run, the call rejected.
C13_Witness ==
  /\ SomePostRejected
  /\ cleanupCalls = 1
  /\ cleanResult # NoData
  /\ settled = "rejected"
  /\ returned = NoResult

HasPreError == \E k \in 1..Len(processErrorCalls) : processErrorCalls[k][2] = "pre"

\* The failure handed to processError is the one of a rule instance of that
\* phase that failed.
FromFailingInstance(e) ==
  /\ e[1] = "rule"
  /\ e[2] = "pre" => e[3] \in DOMAIN preExecution /\ preExecution[e[3]] = "rejected"
  /\ e[2] = "post" => /\ e[3] \in DOMAIN executionPromises
                      /\ executionPromises[e[3]].state = "rejected"

\* C14: once executeWrapper has settled, a denial of either phase has been
\* handed to processError, and what processError received is the failure of
\* one of the failing instances; no execution resolves with a denial that
\* processError never saw.
C14_DenialReachesProcessError ==
  /\ \A k \in 1..Len(processErrorCalls) : FromFailingInstance(processErrorCalls[k])
  /\ settled # "pending" =>
       /\ SomePreRejected => HasPreError
       /\ SomePostRejected => HasPostError
  /\ (settled = "resolved" /\ (SomePreRejected \/ SomePostRejected)) =>
       processErrorCalls # <<>>

\* C14 witness: two post evaluations denied, processError received one of them.
C14_Witness ==
  /\ settled = "rejected"
  /\ HasPostError
  /\ Cardinality({i \in 1..Len(executionPromises) :
                    executionPromises[i].state = "rejected"}) >= 2

Aborted == settled = "rejected" /\ executeFnCalls = <<>>
Failed == settled = "rejected" /\ executeFnCalls # <<>>
Completed == settled = "resolved"

\* The outcome of the promise of executeWrapper is a result or an error,
\* never both, and none of them while it is pending.
OneOutcome ==
  /\ settled \in {"pending", "resolved", "rejected"}
  /\ settled = "pending" => returned = NoResult /\ thrown = NoError
  /\ settled = "resolved" => returned # NoResult /\ thrown = NoError /\ executeFnCalls # <<>>
  /\ settled = "rejected" => returned = NoResult /\ thrown # NoError
  /\ settled # "pending" <=> pc = "done"

\* C15: when every rule evaluation and the engine call settle, executeWrapper
\* eventually settles, in exactly one of Aborted, Failed and Completed; the
\* outcome never changes afterwards, and no execution has both a result and
\* an error.
C15_SettlesInOneTerminalOutcome ==
  /\ <>(Aborted \/ Failed \/ Completed)
  /\ []OneOutcome
  /\ [][settled # "pending" =>
          /\ settled' = settled /\ returned' = returned /\ thrown' = thrown
          /\ executeFnCalls' = executeFnCalls]_vars

\* C15 witness: the call rejected after the engine had been invoked.
C15_Witness ==
  /\ Failed
  /\ executionResult # NoResult
  /\ SomePostRejected
  /\ pc = "done"

\* What executeWrapper resolves with, as a function of the engine's result.
ExpectedResult ==
  IF IsNull(executionResult.data) THEN executionResult
  ELSE [executionResult EXCEPT
          !.data = cleanupResult(filteredDocument, executionResult.data)]

C17_EveryPreInstanceStarted ==
  (pc # "start" /\ thrown \notin {CompileError, AugmentError}) =>
    /\ Len(preExecution) = Len(compiledRules.preExecutionRules)
    /\ \A i \in 1..Len(preExecution) : preExecution[i] # "unstarted"

\* C18: the engine is invoked at most once; what it receives has the members
\* of the caller's arguments with the same values, except document, which is
\* the augmented document; the caller's arguments never change.
C18_EngineCalledOnceWithAugmentedDocument ==
  /\ [](/\ Len(executeFnCalls) <= 1
        /\ \A k \in 1..Len(executeFnCalls) :
             /\ DOMAIN executeFnCalls[k] = DOMAIN args
             /\ \A m \in DOMAIN args \ {"document"} : executeFnCalls[k][m] = args[m]
             /\ executeFnCalls[k].document = fullDocument
             /\ fullDocument = addSelectionSetsToDocument(
                                 args.document, compileRules(args.document, authSchema)))
  /\ [][args' = args /\ (executeFnCalls # <<>> => executeFnCalls' = executeFnCalls)]_vars

\* C18 witness: the engine was called with a document that differs from the
\* caller's, and the call resolved.
C18_Witness ==
  /\ Len(executeFnCalls) = 1
  /\ executeFnCalls[1].document # args.document
  /\ settled = "resolved"

\* C19: when compileRules or addSelectionSetsToDocument throws, executeWrapper
\* rejects with that error: no rule is evaluated, the engine is not invoked,
\* processError is not invoked.
C19_ConfigurationErrorRejectsUnprocessed ==
  /\ (pc # "start" /\ ConfigurationThrows) =>
       /\ pc = "done"
       /\ settled = "rejected"
       /\ thrown = IF compileRulesThrows(args.document, authSchema)
                   THEN CompileError ELSE AugmentError
       /\ returned = NoResult
       /\ preExecution = <<>>
       /\ executionPromises = <<>>
       /\ executeFnCalls = <<>>
       /\ processErrorCalls = <<>>
       /\ cleanupCalls = 0
  /\ thrown \in {CompileError, AugmentError} => ConfigurationThrows

\* C19 witness: a malformed selection set made addSelectionSetsToDocument
\* throw after the rules had compiled.
C19_Witness ==
  /\ thrown = AugmentError
  /\ settled = "rejected"
  /\ compiledRules.postExecutionRules # <<>>

\* C20: when the engine call rejects, executeWrapper rejects with the engine's
\* error: processError is not invoked for it, no post rule is evaluated and
\* the pruner is not run.
C20_EngineErrorRejectsUnprocessed ==
  /\ (pc = "done" /\ executeFnCalls # <<>> /\ executionResult = NoResult) =>
       /\ settled = "rejected"
       /\ thrown = EngineError
       /\ returned = NoResult
       /\ executionPromises = <<>>
       /\ cleanupCalls = 0
       /\ cleanResult = NoData
       /\ ~HasPostError
       /\ \A k \in 1..Len(processErrorCalls) : FromFailingInstance(processErrorCalls[k])
       /\ Len(processErrorCalls) = IF SomePreRejected THEN 1 ELSE 0
  /\ thrown = EngineError =>
       pc = "done" /\ executeFnCalls # <<>> /\ executionResult = NoResult

\* C20 witness: every pre rule passed, the engine call rejected.
C20_Witness ==
  /\ thrown = EngineError
  /\ settled = "rejected"
  /\ preExecution # <<>>
  /\ processErrorCalls = <<>>

====
